---- MODULE Spec2Model ----
(***************************************************************************)
(* A state-machine model of pyTDSserial: tds.py (class Tds and main) and   *)
(* the caller tdsgui.py (Tdsgui.call_tds).                                 *)
(*                                                                         *)
(* Representation choices                                                  *)
(*   - a Python str / bytes value is a sequence of one-character strings;  *)
(*   - a Python float is an exact rational [n |-> numerator, d |-> denom]  *)
(*     in lowest terms with d > 0 (IEEE rounding is not modelled);         *)
(*   - a local variable that may still be unassigned is <<>> when          *)
(*     unassigned and <<v>> once it holds v;                               *)
(*   - the serial line is the log `sent' of the lines written by the host, *)
(*     the queue `pending' of replies the instrument has produced but that *)
(*     have not reached the host yet, and the host's input buffer `inbuf'. *)
(***************************************************************************)
EXTENDS Integers, Sequences, FiniteSets, TLC

(***************************************************************************)
(* Bounds of the model                                                     *)
(***************************************************************************)
\* number of replies that may arrive after the read timeout in one session
MaxLate == 1

(***************************************************************************)
(* Program constants                                                       *)
(***************************************************************************)
\* tds.py:105, 181, 187 -- the fixed record length of the instrument
NSamples == 2500
\* tds.py:136 -- plausibility threshold of a hardcopy
MinImageLen == 30000
\* tds.py:170 -- minimal length of a plausible identity string
MinIdLen == 5
\* tds.py:172 / 175 -- return values of main
RetNoInstrument == 6
RetHardcopyFailed == 5
RetOk == 0

(***************************************************************************)
(* Text: str.rstrip, str.strip, str.split(','), int(), float()             *)
(***************************************************************************)
Whitespace == {" ", "\n", "\r", "\t"}
Digits == {"0", "1", "2", "3", "4", "5", "6", "7", "8", "9"}

DigitVal(c) ==
    CASE c = "0" -> 0 [] c = "1" -> 1 [] c = "2" -> 2 [] c = "3" -> 3
      [] c = "4" -> 4 [] c = "5" -> 5 [] c = "6" -> 6 [] c = "7" -> 7
      [] c = "8" -> 8 [] c = "9" -> 9

Max(S) == CHOOSE m \in S : \A k \in S : k <= m
Min(S) == CHOOSE m \in S : \A k \in S : m <= k

\* str.rstrip(): drop the trailing whitespace
rstrip(s) ==
    LET keep == {i \in 0..Len(s) : \A k \in (i + 1)..Len(s) : s[k] \in Whitespace}
    IN  SubSeq(s, 1, Min(keep))

\* the leading counterpart, used by int() and float(), which ignore
\* whitespace on both sides
lstrip(s) ==
    LET drop == {i \in 0..Len(s) : \A k \in 1..i : s[k] \in Whitespace}
    IN  SubSeq(s, Max(drop) + 1, Len(s))

strip(s) == lstrip(rstrip(s))

\* the fields of a text, given the fields l of its first part and the fields
\* r of the rest: the last field of l continues in the first field of r
JoinFields(l, r) ==
    SubSeq(l, 1, Len(l) - 1) \o << l[Len(l)] \o r[1] >> \o SubSeq(r, 2, Len(r))

\* str.split(','): the fields between the commas of s[lo..hi]; a text with
\* k commas has k+1 fields and the empty text has the single field ''.
\* Computed by halving so that the evaluation depth stays logarithmic; the
\* two halves are bound as values so that each is computed once.
RECURSIVE SplitRange(_, _, _)
SplitRange(s, lo, hi) ==
    IF hi < lo THEN << <<>> >>
    ELSE IF hi = lo THEN (IF s[lo] = "," THEN << <<>>, <<>> >> ELSE << <<s[lo]>> >>)
    ELSE CHOOSE f \in {JoinFields(l, r) :
                          l \in {SplitRange(s, lo, (lo + hi) \div 2)},
                          r \in {SplitRange(s, (lo + hi) \div 2 + 1, hi)}} : TRUE

split(s) == SplitRange(s, 1, Len(s))

\* the last index j >= i-1 such that s[i..j] are all digits
DigitsEnd(s, i) ==
    Max({j \in (i - 1)..Len(s) : \A k \in i..j : s[k] \in Digits})

RECURSIVE NatVal(_, _, _)
NatVal(s, i, j) ==
    IF j < i THEN 0 ELSE 10 * NatVal(s, i, j - 1) + DigitVal(s[j])

RECURSIVE Pow10(_)
Pow10(k) == IF k <= 0 THEN 1 ELSE 10 * Pow10(k - 1)

Abs(x) == IF x < 0 THEN -x ELSE x

RECURSIVE GCD(_, _)
GCD(a, b) == IF b = 0 THEN a ELSE GCD(b, a % b)

\* a float as a rational in lowest terms
Rat(n, d) ==
    LET g == GCD(Abs(n), Abs(d))
    IN  IF n = 0 THEN [n |-> 0, d |-> 1] ELSE [n |-> n \div g, d |-> d \div g]

FromInt(i) == [n |-> i, d |-> 1]
FMul(a, b) == Rat(a.n * b.n, a.d * b.d)
FSub(a, b) == Rat(a.n * b.d - b.n * a.d, a.d * b.d)

\* int(text) for  [sign] digits : s is the stripped text, p the first digit
\* and e the last one; [ok |-> FALSE] stands for ValueError
IntValue(s, p, e) ==
    IF e >= p /\ e = Len(s)
    THEN [ok |-> TRUE,
          val |-> (IF p = 2 /\ s[1] = "-" THEN -1 ELSE 1) * NatVal(s, p, e)]
    ELSE [ok |-> FALSE, val |-> 0]

IntDigits(s, p) == IntValue(s, p, DigitsEnd(s, p))

IntSign(s) ==
    IntDigits(s, IF Len(s) >= 1 /\ s[1] \in {"+", "-"} THEN 2 ELSE 1)

ParseInt(text) == IntSign(strip(text))

\* float(text) for decimal literals  [sign] digits [. digits] [e [sign] digits],
\* scanned from left to right: s is the stripped text, p the first digit,
\* ie the last digit of the integer part, fp..fe the digits of the fraction,
\* xp..xe the digits of the exponent (empty ranges when the part is absent).
\* [ok |-> FALSE] stands for ValueError.
FloatMake(m, ex) ==
    IF ex >= 0 THEN Rat(m * Pow10(ex), 1) ELSE Rat(m, Pow10(-ex))

FloatValue(s, p, ie, fp, fe, xp, xe) ==
    IF /\ (ie >= p \/ fe >= fp)
       /\ (xp > fe + 1 => xe >= xp)
       /\ xe = Len(s)
    THEN [ok |-> TRUE,
          val |-> FloatMake(
                    (IF p = 2 /\ s[1] = "-" THEN -1 ELSE 1)
                      * (NatVal(s, p, ie) * Pow10(fe - fp + 1) + NatVal(s, fp, fe)),
                    (IF xp = fe + 3 /\ s[fe + 2] = "-" THEN -1 ELSE 1)
                      * NatVal(s, xp, xe) - (fe - fp + 1))]
    ELSE [ok |-> FALSE, val |-> FromInt(0)]

FloatExp(s, p, ie, fp, fe) ==
    IF fe + 1 <= Len(s) /\ s[fe + 1] \in {"e", "E"}
    THEN IF fe + 2 <= Len(s) /\ s[fe + 2] \in {"+", "-"}
         THEN FloatValue(s, p, ie, fp, fe, fe + 3, DigitsEnd(s, fe + 3))
         ELSE FloatValue(s, p, ie, fp, fe, fe + 2, DigitsEnd(s, fe + 2))
    ELSE FloatValue(s, p, ie, fp, fe, fe + 1, fe)

FloatFrac(s, p, ie) ==
    IF ie + 1 <= Len(s) /\ s[ie + 1] = "."
    THEN FloatExp(s, p, ie, ie + 2, DigitsEnd(s, ie + 2))
    ELSE FloatExp(s, p, ie, ie + 1, ie)

FloatInt(s, p) == FloatFrac(s, p, DigitsEnd(s, p))

FloatSign(s) ==
    FloatInt(s, IF Len(s) >= 1 /\ s[1] \in {"+", "-"} THEN 2 ELSE 1)

ParseFloat(text) == FloatSign(strip(text))

(***************************************************************************)
(* The instrument: the replies it may give to each query, and the bursts   *)
(* of raw bytes of a hardcopy.                                             *)
(***************************************************************************)
IdLong == <<"T", "D", "S", "2", "1", "0", "\n">>
IdShort == <<"T", "D", "S", "\n">>
DataLine == <<"C", "H", "1", "\n">>
\* a byte that is not valid UTF-8
InvalidByte == "0xFF"
DataBad == <<InvalidByte, "\n">>
XincrA == <<"1", "e", "-", "3", "\n">>
XincrB == <<"4", ".", "0", "E", "-", "4", "\n">>
BlankLine == <<"\n">>
YmultLine == <<"2", "\n">>
YoffLine == <<"1", "0", "\n">>
YzeroLine == <<"0", ".", "5", "\n">>
\* the vertical scale of a channel whose samples are already in its unit
YmultUnit == <<"1", ".", "0", "E", "0", "\n">>
YoffNone == <<"0", ".", "0", "E", "0", "\n">>
YzeroNone == <<"0", "\n">>

DigitChar(v) ==
    CASE v = 0 -> "0" [] v = 1 -> "1" [] v = 2 -> "2" [] v = 3 -> "3"
      [] v = 4 -> "4" [] v = 5 -> "5" [] v = 6 -> "6" [] v = 7 -> "7"
      [] v = 8 -> "8" [] v = 9 -> "9"

\* the two-digit sample code at position k (1-based) of a curve
CodeAt(k) == 10 + ((7 * k) % 90)

\* the line "c1,c2,...,cn\n" of n two-digit codes
CurveLine(n) ==
    [i \in 1..(3 * n) |->
        LET k == (i + 2) \div 3
        IN  IF i % 3 = 1 THEN DigitChar(CodeAt(k) \div 10)
            ELSE IF i % 3 = 2 THEN DigitChar(CodeAt(k) % 10)
            ELSE IF i = 3 * n THEN "\n" ELSE ","]

\* the places of tds.py that call Tds.query
QuerySites == {"init_idn", "main_idn", "rec_data", "rec_xincr", "rec_ymult",
               "rec_yoff", "rec_yzero", "rec_curve"}

\* what the instrument may answer at each place, the horizontal and the
\* vertical scale being settings of the channel asked for; it may also stay
\* silent
DeviceReplies(site, channel) ==
    CASE site \in {"init_idn", "main_idn"} -> {IdLong, IdShort}
      [] site = "rec_data" -> {DataLine, DataBad}
      [] site = "rec_xincr" ->
           {IF channel = "1" THEN XincrA ELSE XincrB, BlankLine}
      [] site = "rec_ymult" -> {IF channel = "1" THEN YmultLine ELSE YmultUnit}
      [] site = "rec_yoff" -> {IF channel = "1" THEN YoffLine ELSE YoffNone}
      [] site = "rec_yzero" -> {IF channel = "1" THEN YzeroLine ELSE YzeroNone}
      [] site = "rec_curve" -> {CurveLine(NSamples), CurveLine(NSamples - 1)}

\* the hardcopies the instrument may send: each is the sequence of the sizes
\* of its bursts of bytes (none at all for an instrument that sends nothing)
HardcopyStreams ==
    {<<>>, <<10000>>, <<29999>>, <<30000>>, <<20000, 15000>>,
     <<20000, 15000, 5000>>}

\* an item of the input buffer or of the image: a received line, or a burst
\* of raw bytes identified by the position of its first byte in the
\* instrument's output
LineItem(text) == [kind |-> "line", text |-> text]
BytesItem(first, len) == [kind |-> "bytes", first |-> first, len |-> len]
ItemLen(item) == IF item.kind = "line" THEN Len(item.text) ELSE item.len

RECURSIVE BufLen(_)
BufLen(buf) == IF buf = <<>> THEN 0 ELSE ItemLen(Head(buf)) + BufLen(Tail(buf))

(***************************************************************************)
(* State                                                                   *)
(***************************************************************************)
VARIABLES
    pc,            \* position of the program
    qphase,        \* inside Tds.query: "write" before the write, "read" after
    options,       \* the docopt dictionary given to main
    connection,    \* "closed" or "open": the serial.Serial object
    sent,          \* lines written to the instrument, in order
    pending,       \* replies produced by the instrument, not yet received
    silent,        \* TRUE once the instrument has left a query unanswered
    inbuf,         \* input buffer of the serial port
    late,          \* number of reads that timed out before their reply came
    stream,        \* bursts of the hardcopy the instrument has yet to send
    produced,      \* number of hardcopy bytes emitted
    id,            \* <<>> or <<text>>: result of get_id() in main
    image,         \* self.image
    polls,         \* numbers of bytes found waiting by Tds.hardcopy at
                   \* lines 128 and 130, in order; a log of the hardcopy
                   \* only, dropped when main goes on to the channels
    rec,           \* locals of the running Tds.record call
    chidx,         \* index in options.channel of the channel being recorded
    measurements,  \* list of main
    hcresult,      \* <<>> or <<BOOLEAN>>: value returned by Tds.hardcopy
    written,       \* files written by the program, in order
    oscmds,        \* commands given to os.system by Tds.hardcopy
    result,        \* how main ended
    success        \* <<>> or <<BOOLEAN>>: value returned by call_tds

vars == <<pc, qphase, options, silent, polls, connection, sent, pending, inbuf, late, stream,
          produced, id, image, rec, chidx, measurements, hcresult, written,
          oscmds, result, success>>


Filename == "out"

Running == [kind |-> "running", ival |-> 0, sval |-> ""]
ReturnInt(v) == [kind |-> "return_int", ival |-> v, sval |-> ""]
ReturnStr(s) == [kind |-> "return_str", ival |-> 0, sval |-> s]
SysExit(msg) == [kind |-> "SystemExit", ival |-> 0, sval |-> msg]
Raise(exc) == [kind |-> "raise", ival |-> 0, sval |-> exc]

\* the locals of Tds.record before line 92
NewRec(channel) ==
    [chn |-> channel, xincr |-> <<>>, ymult |-> <<>>, yoff |-> <<>>,
     yzero |-> <<>>, x_incr |-> <<>>, y_off |-> <<>>, y_mult |-> <<>>,
     y_zero |-> <<>>, t |-> <<>>, curve |-> <<>>, data |-> <<>>]

Init ==
    /\ pc = "init_open"
    /\ qphase = "write"
    /\ options \in [hardcopy : BOOLEAN,
                    channel : {<<>>, <<"1">>, <<"1", "2">>},
                    d : BOOLEAN]
    /\ connection = "closed"
    /\ sent = <<>>
    /\ pending = <<>>
    /\ silent = FALSE
    /\ inbuf = <<>>
    /\ late = 0
    /\ stream \in (IF ~options.hardcopy THEN {<<>>}
                    ELSE IF options.channel = <<>> THEN HardcopyStreams
                    ELSE {<<10000>>, <<20000, 15000>>})
    /\ produced = 0
    /\ id = <<>>
    /\ image = <<>>
    /\ polls = <<>>
    /\ rec = NewRec("")
    /\ chidx = 0
    /\ measurements = <<>>
    /\ hcresult = <<>>
    /\ written = <<>>
    /\ oscmds = <<>>
    /\ result = Running
    /\ success = <<>>

(***************************************************************************)
(* Tds.set, Tds.query, Tds.flush, Tds.get_waiting                          *)
(***************************************************************************)
\* Tds.set(command): the command and a newline are written; `command' is
\* given as the lines it consists of, so 'LOCK ALL' is <<"LOCK ALL">> and
\* 'UNLOCK ALL\n' is <<"UNLOCK ALL", "">> (the command and an empty line)
set(log, command) == log \o command

\* the command written by Tds.query at each place
QueryCmd(site, channel) ==
    CASE site \in {"init_idn", "main_idn"} -> "*IDN?"
      [] site = "rec_data" -> "DATA?"
      [] site = "rec_xincr" -> "WFMPRE:CH" \o channel \o ":XINCR?"
      [] site = "rec_ymult" -> "WFMPRE:CH" \o channel \o ":YMULT?"
      [] site = "rec_yoff" -> "WFMPRE:CH" \o channel \o ":YOFF?"
      [] site = "rec_yzero" -> "WFMPRE:CH" \o channel \o ":YZERO?"
      [] site = "rec_curve" -> "CURVE?"

\* bytes.decode('utf-8') raises UnicodeDecodeError on an invalid byte
DecodeOk(bytes) == \A i \in 1..Len(bytes) : bytes[i] # InvalidByte

\* connection.inWaiting()
inWaiting(buf) == BufLen(buf)

\* variant: the limit of the identity test is one too low
IdTooShort_OffByOne(text) == Len(text) < MinIdLen - 1

\* the test of main on the identity string
IdTooShort(text) == Len(text) < MinIdLen

\* variant: an image of exactly the threshold length is refused
ImageTooSmall_Inclusive(img) == BufLen(img) <= MinImageLen

\* variant: an image one byte short of the threshold is let through
ImageTooSmall_OneLess(img) == BufLen(img) < MinImageLen - 1

\* the test of Tds.hardcopy on the image
ImageTooSmall(img) == BufLen(img) < MinImageLen

\* variant: the length of a recording is not tested
WrongCount_Never(data) == FALSE

\* the test of main on a recording
WrongCount(data) == ~(Len(data) = NSamples)

\* variant: the XINCR reply is not tested
XincrMissing_Never(xincr) == FALSE

\* the test of Tds.record on the XINCR reply
XincrMissing(xincr) == xincr = <<>>

\* exit status of the process for each way main can end: the value returned
\* by main is dropped, sys.exit(<str>) and an uncaught exception give 1
ExitStatus(res) ==
    IF res.kind \in {"return_int", "return_str"} THEN 0 ELSE 1

\* os.system(command): the wait status of the child
OsSystem(status) == status * 256

(***************************************************************************)
(* The instrument's side of the serial line                                *)
(***************************************************************************)
\* a reply reaches the input buffer of the host
Deliver ==
    /\ pc \notin {"exited", "returned"}
    /\ pending # <<>>
    /\ inbuf' = Append(inbuf, LineItem(Head(pending)))
    /\ pending' = Tail(pending)
    /\ UNCHANGED <<pc, qphase, options, silent, polls, connection, sent, late, stream,
                   produced, id, image, rec, chidx, measurements, hcresult,
                   written, oscmds, result, success>>

\* the instrument sends the next burst of the hardcopy while the host is
\* between HARDCOPY START and the end of its drain loop
DeviceEmit ==
    /\ pc \in {"hc_first", "hc_loop", "hc_body"}
    /\ stream # <<>>
    /\ inbuf' = Append(inbuf, BytesItem(produced + 1, Head(stream)))
    /\ produced' = produced + Head(stream)
    /\ stream' = Tail(stream)
    /\ UNCHANGED <<pc, qphase, options, silent, polls, connection, sent, pending, late, id,
                   image, rec, chidx, measurements, hcresult, written, oscmds,
                   result, success>>

(***************************************************************************)
(* Tds.__init__                                                            *)
(***************************************************************************)
TdsOpen ==
    /\ pc = "init_open"
    /\ \/ /\ connection' = "open"
          /\ pc' = "init_set"
          /\ UNCHANGED result
       \/ /\ result' = Raise("SerialException")
          /\ pc' = "exited"
          /\ UNCHANGED connection
    /\ UNCHANGED <<qphase, options, silent, polls, sent, pending, inbuf, late, stream,
                   produced, id, image, rec, chidx, measurements, hcresult,
                   written, oscmds, success>>

\* variant: the header mode is switched off before the line settings
TdsConfigure_HeaderFirst ==
    /\ pc = "init_set"
    /\ sent' = set(set(set(sent, <<"header off">>),
                       <<"RS232:TRANSMIT LF">>),
                   <<"RS232:HARDFLAGGING ON">>)
    /\ pc' = "init_idn"
    /\ qphase' = "write"
    /\ UNCHANGED <<options, silent, polls, connection, pending, inbuf, late, stream,
                   produced, id, image, rec, chidx, measurements, hcresult,
                   written, oscmds, result, success>>

\* lines 66-68
TdsConfigure ==
    /\ pc = "init_set"
    /\ sent' = set(set(set(sent, <<"RS232:TRANSMIT LF">>),
                       <<"RS232:HARDFLAGGING ON">>),
                   <<"header off">>)
    /\ pc' = "init_idn"
    /\ qphase' = "write"
    /\ UNCHANGED <<options, silent, polls, connection, pending, inbuf, late, stream,
                   produced, id, image, rec, chidx, measurements, hcresult,
                   written, oscmds, result, success>>

(***************************************************************************)
(* Tds.query: the write, then the readline                                 *)
(***************************************************************************)
QueryWrite ==
    /\ pc \in QuerySites
    /\ qphase = "write"
    /\ sent' = Append(sent, QueryCmd(pc, rec.chn))
    /\ \E r \in DeviceReplies(pc, rec.chn) \cup {<<>>} :
         /\ pending' = IF r = <<>> THEN pending ELSE Append(pending, r)
         /\ silent' = (silent \/ r = <<>>)
    /\ qphase' = "read"
    /\ UNCHANGED <<pc, options, polls, connection, inbuf, late, stream, produced,
                   id, image, rec, chidx, measurements, hcresult, written,
                   oscmds, result, success>>

\* what the caller of query does with the text returned, up to its next call
QueryReturn(site, text) ==
    CASE site = "init_idn" ->
           /\ pc' = "main_idn"
           /\ UNCHANGED <<id, rec, result>>
      [] site = "main_idn" ->
           /\ id' = <<text>>
           /\ IF IdTooShort(text)
              THEN /\ result' = ReturnInt(RetNoInstrument)
                   /\ pc' = "exited"
              ELSE /\ pc' = IF options.hardcopy THEN "hc_trigger" ELSE "main_loop"
                   /\ UNCHANGED result
           /\ UNCHANGED rec
      [] site = "rec_data" ->
           /\ pc' = "rec_xincr"
           /\ UNCHANGED <<id, rec, result>>
      [] site = "rec_xincr" ->
           /\ rec' = [rec EXCEPT !.xincr = <<rstrip(text)>>]
           /\ pc' = "rec_ymult"
           /\ UNCHANGED <<id, result>>
      [] site = "rec_ymult" ->
           /\ rec' = [rec EXCEPT !.ymult = <<rstrip(text)>>]
           /\ pc' = "rec_yoff"
           /\ UNCHANGED <<id, result>>
      [] site = "rec_yoff" ->
           /\ rec' = [rec EXCEPT !.yoff = <<rstrip(text)>>]
           /\ pc' = "rec_yzero"
           /\ UNCHANGED <<id, result>>
      [] site = "rec_yzero" ->
           /\ rec' = [rec EXCEPT !.yzero = <<rstrip(text)>>]
           /\ pc' = "rec_parse"
           /\ UNCHANGED <<id, result>>
      [] site = "rec_curve" ->
           /\ rec' = [rec EXCEPT !.curve = <<text>>]
           /\ pc' = "rec_decode"
           /\ UNCHANGED <<id, result>>

\* readline returns the first line of the input buffer, or the empty text
\* when nothing has arrived by the timeout
QueryRead ==
    /\ pc \in QuerySites
    /\ qphase = "read"
    /\ LET got == inbuf # <<>>
           bytes == IF got THEN Head(inbuf).text ELSE <<>>
       IN  /\ got \/ pending = <<>> \/ late < MaxLate
           /\ inbuf' = IF got THEN Tail(inbuf) ELSE inbuf
           /\ late' = IF ~got /\ pending # <<>> THEN late + 1 ELSE late
           /\ IF DecodeOk(bytes)
              THEN QueryReturn(pc, bytes)
              ELSE /\ result' = Raise("UnicodeDecodeError")
                   /\ pc' = "exited"
                   /\ UNCHANGED <<id, rec>>
    /\ qphase' = "write"
    /\ UNCHANGED <<options, silent, polls, connection, sent, pending, stream, produced,
                   image, chidx, measurements, hcresult, written, oscmds,
                   success>>

(***************************************************************************)
(* Tds.hardcopy                                                            *)
(***************************************************************************)
\* variant: the dump is started before the port and the format are set
HardcopyTrigger_StartFirst ==
    /\ pc = "hc_trigger"
    /\ sent' = set(set(set(set(set(sent, <<"LOCK ALL">>),
                                   <<"HARDCOPY START">>),
                               <<"HARDCOPY:PORT RS232">>),
                           <<"HARDCOPY:FORMAT BMP">>),
                   <<"HARDCOPY:LAYOUT PORTRAIT">>)
    /\ inbuf' = <<>>
    /\ pc' = "hc_first"
    /\ UNCHANGED <<qphase, options, silent, polls, connection, pending, late, stream,
                   produced, id, image, rec, chidx, measurements, hcresult,
                   written, oscmds, result, success>>

\* lines 121-126: lock, flush the input, configure and start the dump
HardcopyTrigger ==
    /\ pc = "hc_trigger"
    /\ sent' = set(set(set(set(set(sent, <<"LOCK ALL">>),
                                   <<"HARDCOPY:PORT RS232">>),
                               <<"HARDCOPY:FORMAT BMP">>),
                           <<"HARDCOPY:LAYOUT PORTRAIT">>),
                   <<"HARDCOPY START">>)
    /\ inbuf' = <<>>
    /\ pc' = "hc_first"
    /\ UNCHANGED <<qphase, options, silent, polls, connection, pending, late, stream,
                   produced, id, image, rec, chidx, measurements, hcresult,
                   written, oscmds, result, success>>

\* variant: a first read that finds nothing ends the drain
HardcopyFirst_StopsWhenEmpty ==
    /\ pc = "hc_first"
    /\ image' = inbuf
    /\ polls' = Append(polls, inWaiting(inbuf))
    /\ inbuf' = <<>>
    /\ pc' = IF inWaiting(inbuf) > 0 THEN "hc_loop" ELSE "hc_unlock"
    /\ UNCHANGED <<qphase, options, silent, connection, sent, pending, late, stream,
                   produced, id, rec, chidx, measurements, hcresult, written,
                   oscmds, result, success>>

\* lines 127-129: after the first pause, image = get_waiting()
HardcopyFirst ==
    /\ pc = "hc_first"
    /\ image' = inbuf
    /\ polls' = Append(polls, inWaiting(inbuf))
    /\ inbuf' = <<>>
    /\ pc' = "hc_loop"
    /\ UNCHANGED <<qphase, options, silent, connection, sent, pending, late, stream,
                   produced, id, rec, chidx, measurements, hcresult, written,
                   oscmds, result, success>>

\* variant: the loop is left at its third poll at the latest
HardcopyLoop_MaxPolls ==
    /\ pc = "hc_loop"
    /\ polls' = Append(polls, inWaiting(inbuf))
    /\ pc' = IF inWaiting(inbuf) > 0 /\ Len(polls) < 3
             THEN "hc_body" ELSE "hc_unlock"
    /\ UNCHANGED <<qphase, options, silent, connection, sent, pending, inbuf, late,
                   stream, produced, id, image, rec, chidx, measurements,
                   hcresult, written, oscmds, result, success>>

\* line 130: the test of the while loop
HardcopyLoop ==
    /\ pc = "hc_loop"
    /\ polls' = Append(polls, inWaiting(inbuf))
    /\ pc' = IF inWaiting(inbuf) > 0 THEN "hc_body" ELSE "hc_unlock"
    /\ UNCHANGED <<qphase, options, silent, connection, sent, pending, inbuf, late,
                   stream, produced, id, image, rec, chidx, measurements,
                   hcresult, written, oscmds, result, success>>

\* variant: the bytes read replace the image instead of extending it
HardcopyBody_Overwrite ==
    /\ pc = "hc_body"
    /\ image' = inbuf
    /\ inbuf' = <<>>
    /\ pc' = "hc_loop"
    /\ UNCHANGED <<qphase, options, silent, polls, connection, sent, pending, late,
                   stream, produced, id, rec, chidx, measurements, hcresult,
                   written, oscmds, result, success>>

\* lines 131-134: image += get_waiting(), then the pause
HardcopyBody ==
    /\ pc = "hc_body"
    /\ image' = image \o inbuf
    /\ inbuf' = <<>>
    /\ pc' = "hc_loop"
    /\ UNCHANGED <<qphase, options, silent, polls, connection, sent, pending, late, stream,
                   produced, id, rec, chidx, measurements, hcresult, written,
                   oscmds, result, success>>

\* line 135
HardcopyUnlock ==
    /\ pc = "hc_unlock"
    /\ sent' = set(sent, <<"UNLOCK ALL", "">>)
    /\ pc' = "hc_check"
    /\ UNCHANGED <<qphase, options, silent, polls, connection, pending, inbuf, late, stream,
                   produced, id, image, rec, chidx, measurements, hcresult,
                   written, oscmds, result, success>>

\* variant: the image is written and converted before its length is tested
HardcopyCheck_WriteFirst ==
    /\ pc = "hc_check"
    /\ written' = Append(written, [name |-> Filename, content |-> image])
    /\ oscmds' = oscmds \o
         << "convert " \o Filename \o " " \o Filename \o ".png",
            "rm -f " \o Filename >>
    /\ IF BufLen(image) < MinImageLen
       THEN /\ hcresult' = <<FALSE>>
            /\ result' = ReturnInt(RetHardcopyFailed)
            /\ pc' = "exited"
       ELSE /\ hcresult' = <<TRUE>>
            /\ pc' = "main_loop"
            /\ UNCHANGED result
    /\ UNCHANGED <<qphase, options, silent, polls, connection, sent, pending, inbuf, late,
                   stream, produced, id, image, rec, chidx, measurements,
                   success>>

\* lines 136-145 and the test of main on the value returned (174-175)
HardcopyCheck ==
    /\ pc = "hc_check"
    /\ IF ImageTooSmall(image)
       THEN /\ hcresult' = <<FALSE>>
            /\ result' = ReturnInt(RetHardcopyFailed)
            /\ pc' = "exited"
            /\ UNCHANGED <<written, oscmds>>
       ELSE /\ written' = Append(written, [name |-> Filename, content |-> image])
            /\ oscmds' = oscmds \o
                 << "convert " \o Filename \o " " \o Filename \o ".png",
                    "rm -f " \o Filename >>
            /\ hcresult' = <<TRUE>>
            /\ pc' = "main_loop"
            /\ UNCHANGED result
    /\ UNCHANGED <<qphase, options, silent, polls, connection, sent, pending, inbuf, late,
                   stream, produced, id, image, rec, chidx, measurements,
                   success>>

(***************************************************************************)
(* Tds.record                                                              *)
(***************************************************************************)
\* variant: the sample width is set before the encoding
RecordSetup_WidthFirst ==
    /\ pc = "rec_setup"
    /\ sent' = set(set(set(set(set(sent, <<"LOCK ALL">>),
                                   <<"DATA INIT", "">>),
                               <<"DATA:SOURCE CH" \o rec.chn, "">>),
                           <<"DATA:WIDTH 1", "">>),
                   <<"DATA:ENC ASCII", "">>)
    /\ inbuf' = <<>>
    /\ pc' = "rec_data"
    /\ qphase' = "write"
    /\ UNCHANGED <<options, silent, polls, connection, pending, late, stream, produced, id,
                   image, rec, chidx, measurements, hcresult, written, oscmds,
                   result, success>>

\* lines 85-90: lock, flush the input, configure the transfer
RecordSetup ==
    /\ pc = "rec_setup"
    /\ sent' = set(set(set(set(set(sent, <<"LOCK ALL">>),
                                   <<"DATA INIT", "">>),
                               <<"DATA:SOURCE CH" \o rec.chn, "">>),
                           <<"DATA:ENC ASCII", "">>),
                   <<"DATA:WIDTH 1", "">>)
    /\ inbuf' = <<>>
    /\ pc' = "rec_data"
    /\ qphase' = "write"
    /\ UNCHANGED <<options, silent, polls, connection, pending, late, stream, produced, id,
                   image, rec, chidx, measurements, hcresult, written, oscmds,
                   result, success>>

\* variant: the time vector starts at one sample period instead of zero
TimeVector_FromOne(x_incr) == [i \in 1..NSamples |-> FMul(x_incr, FromInt(i))]

\* lines 105-106
TimeVector(x_incr) == [i \in 1..NSamples |-> FMul(x_incr, FromInt(i - 1))]

\* lines 98-106: the test on xincr, the four float(), the time vector
RecordParse ==
    /\ pc = "rec_parse"
    /\ IF XincrMissing(rec.xincr[1])
       THEN /\ result' = SysExit("Error: could not read channel " \o rec.chn \o ".")
            /\ pc' = "exited"
            /\ UNCHANGED rec
       ELSE LET fx == ParseFloat(rec.xincr[1])
                fo == ParseFloat(rec.yoff[1])
                fm == ParseFloat(rec.ymult[1])
                fz == ParseFloat(rec.yzero[1])
                r1 == IF fx.ok THEN [rec EXCEPT !.x_incr = <<fx.val>>] ELSE rec
                r2 == IF fx.ok /\ fo.ok THEN [r1 EXCEPT !.y_off = <<fo.val>>] ELSE r1
                r3 == IF fx.ok /\ fo.ok /\ fm.ok
                      THEN [r2 EXCEPT !.y_mult = <<fm.val>>] ELSE r2
                r4 == IF fx.ok /\ fo.ok /\ fm.ok /\ fz.ok
                      THEN [r3 EXCEPT !.y_zero = <<fz.val>>] ELSE r3
            IN  IF fx.ok /\ fo.ok /\ fm.ok /\ fz.ok
                THEN /\ rec' = [r4 EXCEPT !.t = TimeVector(fx.val)]
                     /\ pc' = "rec_curve"
                     /\ UNCHANGED result
                ELSE /\ rec' = r4
                     /\ result' = Raise("ValueError")
                     /\ pc' = "exited"
    /\ UNCHANGED <<qphase, options, silent, polls, connection, sent, pending, inbuf, late,
                   stream, produced, id, image, chidx, measurements, hcresult,
                   written, oscmds, success>>

\* variant: the offset is taken off after the scaling instead of before
DecodeSample_OffsetAfterScale(field, convert, r) ==
    IF convert
    THEN LET f == ParseFloat(field)
         IN  [ok |-> f.ok,
              val |-> FSub(FSub(FMul(f.val, r.y_mult[1]), r.y_off[1]), r.y_zero[1])]
    ELSE ParseInt(field)

\* lines 110-113: one field of the curve, converted or as an integer code
DecodeSample(field, convert, r) ==
    IF convert
    THEN LET f == ParseFloat(field)
         IN  [ok |-> f.ok,
              val |-> FSub(FMul(FSub(f.val, r.y_off[1]), r.y_mult[1]), r.y_zero[1])]
    ELSE ParseInt(field)

\* lines 107-117: split the curve, decode every field, unlock, return
RecordDecode ==
    /\ pc = "rec_decode"
    /\ \E xsplit \in {split(rec.curve[1])} :
         IF \A i \in 1..Len(xsplit) : DecodeSample(xsplit[i], options.d, rec).ok
         THEN /\ rec' = [rec EXCEPT !.data =
                           [i \in 1..Len(xsplit) |->
                              DecodeSample(xsplit[i], options.d, rec).val]]
              /\ sent' = set(sent, <<"UNLOCK ALL", "">>)
              /\ pc' = "main_check"
              /\ UNCHANGED result
         ELSE /\ result' = Raise("ValueError")
              /\ pc' = "exited"
              /\ UNCHANGED <<rec, sent>>
    /\ UNCHANGED <<qphase, options, silent, polls, connection, pending, inbuf, late, stream,
                   produced, id, image, chidx, measurements, hcresult, written,
                   oscmds, success>>

\* the dictionary returned by Tds.record (lines 116-117)
Measurement(r) ==
    [chn |-> r.chn, xincr |-> r.xincr[1], ymult |-> r.ymult[1],
     yoff |-> r.yoff[1], yzero |-> r.yzero[1], data |-> r.data, t |-> r.t]

(***************************************************************************)
(* main                                                                    *)
(***************************************************************************)
\* variant: the channels are taken from the last one to the first
MainNextChannel_Reversed ==
    /\ pc = "main_loop"
    /\ options.channel # <<>>
    /\ chidx < Len(options.channel)
    /\ chidx' = chidx + 1
    /\ rec' = NewRec(options.channel[Len(options.channel) - chidx])
    /\ pc' = "rec_setup"
    /\ polls' = <<>>
    /\ UNCHANGED <<qphase, options, silent, connection, sent, pending, inbuf, late,
                   stream, produced, id, image, measurements, hcresult,
                   written, oscmds, result, success>>

\* lines 177-179: the next channel of the loop, if any
MainNextChannel ==
    /\ pc = "main_loop"
    /\ options.channel # <<>>
    /\ chidx < Len(options.channel)
    /\ chidx' = chidx + 1
    /\ rec' = NewRec(options.channel[chidx + 1])
    /\ pc' = "rec_setup"
    /\ polls' = <<>>
    /\ UNCHANGED <<qphase, options, silent, connection, sent, pending, inbuf, late,
                   stream, produced, id, image, measurements, hcresult,
                   written, oscmds, result, success>>

\* lines 180-182: keep the recording and test its length
MainCheck ==
    /\ pc = "main_check"
    /\ measurements' = Append(measurements, Measurement(rec))
    /\ IF WrongCount(rec.data)
       THEN /\ result' = ReturnStr(rec.chn)
            /\ pc' = "exited"
       ELSE /\ pc' = "main_loop"
            /\ UNCHANGED result
    /\ UNCHANGED <<qphase, options, silent, polls, connection, sent, pending, inbuf, late,
                   stream, produced, id, image, rec, chidx, hcresult, written,
                   oscmds, success>>

\* lines 186-191: the lines of the .dat file
DatContent(ms) ==
    [i \in 1..NSamples |->
        <<ms[1].t[i]>> \o [k \in 1..Len(ms) |-> ms[k].data[i]]]

\* lines 183-196: after the loop, write the file and return 0
MainFinish ==
    /\ pc = "main_loop"
    /\ options.channel = <<>> \/ chidx >= Len(options.channel)
    /\ written' =
         IF options.channel # <<>> /\ Len(measurements) > 0
         THEN IF options.d
              THEN Append(written, [name |-> Filename \o ".dat",
                                    content |-> DatContent(measurements)])
              ELSE Append(written, [name |-> Filename \o ".yaml",
                                    content |-> measurements])
         ELSE written
    /\ result' = ReturnInt(RetOk)
    /\ pc' = "exited"
    /\ UNCHANGED <<qphase, options, silent, polls, connection, sent, pending, inbuf, late,
                   stream, produced, id, image, rec, chidx, measurements,
                   hcresult, oscmds, success>>

(***************************************************************************)
(* Tdsgui.call_tds: the caller of the program tests its exit status        *)
(***************************************************************************)
call_tds ==
    /\ pc = "exited"
    /\ success' = <<OsSystem(ExitStatus(result)) = 0>>
    /\ pc' = "returned"
    /\ UNCHANGED <<qphase, options, silent, polls, connection, sent, pending, inbuf, late,
                   stream, produced, id, image, rec, chidx, measurements,
                   hcresult, written, oscmds, result>>

Next ==
    \/ TdsOpen
    \/ TdsConfigure
    \/ QueryWrite
    \/ QueryRead
    \/ Deliver
    \/ HardcopyTrigger
    \/ DeviceEmit
    \/ HardcopyFirst
    \/ HardcopyLoop
    \/ HardcopyBody
    \/ HardcopyUnlock
    \/ HardcopyCheck
    \/ RecordSetup
    \/ RecordParse
    \/ RecordDecode
    \/ MainNextChannel
    \/ MainCheck
    \/ MainFinish
    \/ call_tds

Spec == Init /\ [][Next]_vars

\* the steps of Tds.hardcopy after the start of the dump
HardcopySteps ==
    \/ HardcopyFirst
    \/ HardcopyLoop
    \/ HardcopyBody
    \/ HardcopyUnlock
    \/ HardcopyCheck

\* the program is sequential and every statement of lines 127-145 returns:
\* time.sleep ends, inWaiting and read(n) of the n bytes waiting do not
\* block, the writes are not held back; nothing is assumed of the instrument
LiveSpec == Spec /\ WF_vars(HardcopySteps)

(***************************************************************************)
(* Properties                                                              *)
(***************************************************************************)
Ended == pc \in {"exited", "returned"}

\* number of occurrences of a line in the log of lines written
Count(log, line) == Cardinality({i \in 1..Len(log) : log[i] = line})

\* the lines of an acquisition or of a hardcopy
WorkCommands ==
    {"LOCK ALL", "UNLOCK ALL", "DATA INIT", "DATA:ENC ASCII", "DATA:WIDTH 1",
     "DATA?", "CURVE?", "HARDCOPY:PORT RS232", "HARDCOPY:FORMAT BMP",
     "HARDCOPY:LAYOUT PORTRAIT", "HARDCOPY START"}
    \cup UNION {{"DATA:SOURCE CH" \o c, "WFMPRE:CH" \o c \o ":XINCR?",
                 "WFMPRE:CH" \o c \o ":YMULT?", "WFMPRE:CH" \o c \o ":YOFF?",
                 "WFMPRE:CH" \o c \o ":YZERO?"} : c \in {"1", "2"}}

\* the files of measurements main may write
MeasurementFiles == {Filename \o ".dat", Filename \o ".yaml"}

WrittenNames == {written[i].name : i \in 1..Len(written)}

\* C1: for every acquisition and every hardcopy attempt, whether main
\* returns, leaves by sys.exit on an empty XINCR reply or stops on a reply of
\* the preamble or of the curve that does not parse, the instrument has been
\* unlocked by the time the session ends: each attempt sent one LOCK ALL, and
\* as many UNLOCK ALL as LOCK ALL have been sent.
C1_LockUnlockBracketing ==
    (/\ Ended
     /\ \/ result.kind \in {"return_int", "return_str", "SystemExit"}
        \/ result = Raise("ValueError")) =>
        Count(sent, "UNLOCK ALL") = Count(sent, "LOCK ALL")

\* C2: when the identity read by main is shorter than 5 characters, main
\* returns 6 and no line of an acquisition or of a hardcopy has been written,
\* whatever was requested.
C2_ShortIdShortCircuits ==
    (id # <<>> /\ Len(id[1]) < 5) =>
        /\ Ended
        /\ result = ReturnInt(6)
        /\ \A i \in 1..Len(sent) : sent[i] \notin WorkCommands

C2_Witness ==
    /\ pc = "exited"
    /\ id = <<IdShort>>
    /\ options.hardcopy
    /\ options.channel # <<>>

\* C3: the caller of the program can tell success from failure and the
\* failures from each other by the exit status: it is zero exactly when main
\* returned 0, and call_tds reports success only then.
C3_ExitStatusTellsOutcome ==
    /\ Ended => (ExitStatus(result) = 0 <=> result = ReturnInt(RetOk))
    /\ pc = "returned" => (success[1] <=> result = ReturnInt(RetOk))

\* C4: hardcopy returns True exactly when the image has at least 30 000
\* bytes: 29 999 bytes are refused, 30 000 bytes are accepted.
C4_ThresholdBoundary ==
    hcresult # <<>> =>
        /\ hcresult[1] <=> BufLen(image) >= 30000
        /\ BufLen(image) = 29999 => hcresult = <<FALSE>>
        /\ BufLen(image) = 30000 => hcresult = <<TRUE>>

C4_Witness ==
    /\ hcresult = <<FALSE>>
    /\ BufLen(image) = 29999

\* C5 as stated: hardcopy returns True exactly when the image is strictly
\* longer than 30 000 bytes.
C5_AcceptedIffExceeds ==
    hcresult # <<>> => (hcresult[1] <=> BufLen(image) > MinImageLen)

\* C5 as amended: an accepted image has at least 30 000 bytes, and an image
\* shorter than that is a failed capture, for which main returns 5.
C5_AcceptedIffAtLeast ==
    /\ hcresult = <<TRUE>> => BufLen(image) >= MinImageLen
    /\ hcresult = <<FALSE>> =>
         /\ BufLen(image) < MinImageLen
         /\ result = ReturnInt(RetHardcopyFailed)

C5_Witness ==
    /\ hcresult = <<TRUE>>
    /\ BufLen(image) = MinImageLen

\* C6: the raw image is written and the converter is run only when the
\* hardcopy is accepted; when it is refused nothing is written, nothing is
\* run, hardcopy returns False and main returns 5.
C6_WriteOnlyWhenAccepted ==
    /\ (Filename \in WrittenNames \/ oscmds # <<>>) => hcresult = <<TRUE>>
    /\ hcresult = <<FALSE>> =>
         /\ written = <<>>
         /\ oscmds = <<>>
         /\ Ended
         /\ result = ReturnInt(5)

C6_Witness ==
    /\ hcresult = <<FALSE>>
    /\ BufLen(image) > 0
    /\ pc = "exited"

\* C7: when the XINCR reply is empty, none of y_mult, y_off, y_zero is
\* parsed and CURVE? is not sent for this channel, and once the four
\* replies of the preamble have been read the acquisition ends by the
\* channel-read error of line 100, which is not the return of 6.
C7_EmptyXincrIsChannelReadError ==
    (rec.xincr = << <<>> >>) =>
        /\ rec.y_mult = <<>> /\ rec.y_off = <<>> /\ rec.y_zero = <<>>
        /\ rec.x_incr = <<>>
        /\ Count(sent, "CURVE?") = Len(measurements)
        /\ (Ended /\ rec.yzero # <<>>) =>
             /\ result = SysExit("Error: could not read channel " \o rec.chn \o ".")
             /\ result # ReturnInt(RetNoInstrument)

C7_Witness ==
    /\ pc = "exited"
    /\ rec.xincr = << <<>> >>
    /\ rec.ymult = << <<"2">> >>
    /\ rec.yoff = << <<"1", "0">> >>
    /\ rec.yzero = << <<"0", ".", "5">> >>

\* C8: a recording whose length is not 2500 ends the run at once: it is the
\* last one made, no file of measurements is written, no further channel is
\* started; a file of measurements is written only when every requested
\* channel gave 2500 samples.
C8_WrongCountAbortsBatch ==
    /\ \A k \in 1..Len(measurements) :
         Len(measurements[k].data) # 2500 =>
            /\ k = Len(measurements)
            /\ Ended
            /\ result = ReturnStr(measurements[k].chn)
            /\ WrittenNames \cap MeasurementFiles = {}
            /\ chidx = k
            /\ Count(sent, "DATA INIT") = k
    /\ WrittenNames \cap MeasurementFiles # {} =>
         /\ Len(measurements) = Len(options.channel)
         /\ \A k \in 1..Len(measurements) : Len(measurements[k].data) = 2500

C8_Witness ==
    /\ pc = "exited"
    /\ Len(measurements) = 2
    /\ Len(measurements[1].data) = 2500
    /\ Len(measurements[2].data) # 2500

\* the XINCR reply of the instrument for a channel, as Tds.record keeps it
OwnXincr(channel) == rstrip(IF channel = "1" THEN XincrA ELSE XincrB)

\* C9: every recording that passed the test of main has 2500 samples and
\* 2500 instants, and instant i is i times the x increment parsed from the
\* XINCR reply of its own channel.
C9_TimeVectorOfAcceptedRecording ==
    (pc = "main_loop" /\ measurements # <<>>) =>
        \A k \in 1..Len(measurements) :
            /\ Len(measurements[k].data) = 2500
            /\ Len(measurements[k].t) = 2500
            /\ measurements[k].xincr = OwnXincr(measurements[k].chn)
            /\ \A x \in {ParseFloat(measurements[k].xincr).val} :
                 \A i \in 0..2499 :
                    measurements[k].t[i + 1] = FMul(x, FromInt(i))

C9_Witness ==
    /\ pc = "main_loop"
    /\ Len(measurements) = 2
    /\ measurements[1].xincr # measurements[2].xincr

\* C10: an empty reply to YMULT?, YOFF?, YZERO? or CURVE? ends the
\* acquisition by the same channel-read error as an empty XINCR reply, and
\* gives no recording and no file of measurements.
C10_EmptyReplyIsChannelReadError ==
    (/\ Ended
     /\ rec.yzero # <<>>
     /\ \/ rec.ymult = << <<>> >>
        \/ rec.yoff = << <<>> >>
        \/ rec.yzero = << <<>> >>
        \/ rec.curve = << <<>> >>) =>
        /\ result = SysExit("Error: could not read channel " \o rec.chn \o ".")
        /\ Len(measurements) = chidx - 1
        /\ WrittenNames \cap MeasurementFiles = {}

\* the sum of the numbers of a sequence
RECURSIVE SeqSum(_)
SeqSum(q) == IF q = <<>> THEN 0 ELSE Head(q) + SeqSum(Tail(q))

\* the drain loop of Tds.hardcopy has been left
DrainOver == polls # <<>> /\ pc \notin {"hc_loop", "hc_body"}

\* C11 as stated: the drain ends at the first poll that finds no byte, the
\* first read of line 128 included, so that no poll after it finds bytes
\* to append; polls of 20 000, 15 000 and 0 bytes give
\* an image of 35 000 bytes, which is accepted; polls of 10 000 and 0 bytes
\* give an image that is refused.
C11_StopsAtFirstEmptyPoll ==
    DrainOver =>
        /\ polls[Len(polls)] = 0
        /\ \A i \in 1..Len(polls) :
             polls[i] = 0 => \A j \in i..Len(polls) : polls[j] = 0
        /\ polls = <<20000, 15000, 0>> =>
             /\ BufLen(image) = 35000
             /\ hcresult # <<>> => hcresult = <<TRUE>>
        /\ polls = <<10000, 0>> => (hcresult # <<>> => hcresult = <<FALSE>>)

\* C11 as amended: the first read is made whatever it finds; every later
\* poll that finds bytes is followed by a read that appends all the bytes
\* then waiting, at least those found; the drain ends at the first poll of
\* the loop that finds none.  Polls of 20 000, 15 000 and 0 bytes give an
\* image of at least 35 000 bytes, which is accepted; polls of 10 000 and 0
\* bytes give an image of 10 000 bytes, which is refused.
C11_DrainAppendsUntilEmptyTest ==
    /\ pc = "hc_loop" => BufLen(image) >= SeqSum(polls)
    /\ pc = "hc_body" =>
         /\ polls[Len(polls)] > 0
         /\ BufLen(image) + polls[Len(polls)] >= SeqSum(polls)
    /\ DrainOver =>
         /\ Len(polls) >= 2
         /\ polls[Len(polls)] = 0
         /\ \A i \in 2..(Len(polls) - 1) : polls[i] > 0
         /\ BufLen(image) >= SeqSum(polls)
         /\ polls = <<20000, 15000, 0>> =>
              /\ BufLen(image) >= 35000
              /\ hcresult # <<>> => hcresult = <<TRUE>>
         /\ polls = <<10000, 0>> =>
              /\ BufLen(image) = 10000
              /\ hcresult # <<>> => hcresult = <<FALSE>>

C11_Witness ==
    /\ hcresult = <<TRUE>>
    /\ polls = <<20000, 15000, 0>>
    /\ BufLen(image) = 35000

\* the lines written by the construction of Tds
ConstructionLines ==
    <<"RS232:TRANSMIT LF", "RS232:HARDFLAGGING ON", "header off", "*IDN?">>

\* C12: the first lines written in a session are, in this order and with
\* nothing before or between them, RS232:TRANSMIT LF, RS232:HARDFLAGGING ON,
\* header off and *IDN?; once Tds is constructed all four have been written.
C12_ConstructionOrder ==
    /\ \A i \in 1..Len(sent) : i <= 4 => sent[i] = ConstructionLines[i]
    /\ (connection = "open" /\ pc \notin {"init_set", "init_idn"}) =>
         SubSeq(sent, 1, 4) = ConstructionLines

C12_Witness ==
    /\ pc = "hc_first"
    /\ Len(sent) > 4

\* C13: when main has ended, by any of its returns (0, 6, 5, the channel) or
\* by the sys.exit of the channel-read error, the serial connection that
\* Tds opened has been closed.
C13_ConnectionClosedAtEnd ==
    (Ended /\ result.kind \in {"return_int", "return_str", "SystemExit"}) =>
        connection = "closed"

\* the replies of the instrument to the vertical-scale queries of a channel
OwnYmult(channel) == IF channel = "1" THEN YmultLine ELSE YmultUnit
OwnYoff(channel) == IF channel = "1" THEN YoffLine ELSE YoffNone
OwnYzero(channel) == IF channel = "1" THEN YzeroLine ELSE YzeroNone

\* C14: when Tds.record has decoded a curve, with conversion every stored
\* value is (code - y_offset) * y_multiplier - y_zero for the code the
\* instrument sent at that position, the three numbers being those of the
\* channel's own preamble (channel 1: 2c - 20.5); with y_offset = 0,
\* y_multiplier = 1 and y_zero = 0 the stored value equals the code; without
\* conversion the stored values are the integer codes, in the order sent.
C14_ConversionFormula ==
    pc = "main_check" =>
        /\ Len(rec.data) \in {NSamples, NSamples - 1}
        /\ rec.y_off = <<ParseFloat(OwnYoff(rec.chn)).val>>
        /\ rec.y_mult = <<ParseFloat(OwnYmult(rec.chn)).val>>
        /\ rec.y_zero = <<ParseFloat(OwnYzero(rec.chn)).val>>
        /\ \A i \in 1..Len(rec.data) :
             IF options.d
             THEN /\ rec.data[i] =
                       FSub(FMul(FSub(FromInt(CodeAt(i)), rec.y_off[1]),
                                 rec.y_mult[1]),
                            rec.y_zero[1])
                  /\ rec.chn = "1" => rec.data[i] = Rat(4 * CodeAt(i) - 41, 2)
                  /\ (/\ rec.y_off[1] = FromInt(0)
                      /\ rec.y_mult[1] = FromInt(1)
                      /\ rec.y_zero[1] = FromInt(0)) =>
                        rec.data[i] = FromInt(CodeAt(i))
             ELSE rec.data[i] = CodeAt(i)

C14_Witness ==
    /\ pc = "main_check"
    /\ options.d
    /\ rec.chn = "2"
    /\ rec.y_off = <<FromInt(0)>>
    /\ rec.y_mult = <<FromInt(1)>>
    /\ rec.y_zero = <<FromInt(0)>>
    /\ Len(rec.data) = NSamples
    /\ rec.data[NSamples] = FromInt(CodeAt(NSamples))
    /\ measurements[1].data[1] = Rat(4 * CodeAt(1) - 41, 2)

\* the lines written, without the empty lines that follow the commands
\* given to Tds.set with a newline of their own
IsCommand(line) == line # ""
Commands == SelectSeq(sent, IsCommand)

\* the commands of Tds.record for a channel, in the order of lines 85-115
RecordLines(c) ==
    <<"LOCK ALL", "DATA INIT", "DATA:SOURCE CH" \o c, "DATA:ENC ASCII",
      "DATA:WIDTH 1", "DATA?", "WFMPRE:CH" \o c \o ":XINCR?",
      "WFMPRE:CH" \o c \o ":YMULT?", "WFMPRE:CH" \o c \o ":YOFF?",
      "WFMPRE:CH" \o c \o ":YZERO?", "CURVE?", "UNLOCK ALL">>

\* number of commands written before the first Tds.record call: those of
\* the construction, the *IDN? of main and those of a hardcopy
BeforeRecords == 5 + (IF options.hardcopy THEN 6 ELSE 0)

\* the commands written by the Tds.record calls
RecordLog == SubSeq(Commands, BeforeRecords + 1, Len(Commands))

\* the commands of the calls of Tds.record follow each other in the order
\* of RecordLines, call k for channel k, only the last call being possibly
\* incomplete; CURVE? of the running call has been written only when the
\* four replies of the preamble of this call have been read, are not empty
\* and are the replies of the instrument for this channel
C15_Order ==
    chidx >= 1 =>
        /\ Len(RecordLog) <= 12 * chidx
        /\ Len(RecordLog) >= 12 * (chidx - 1)
        /\ \A j \in 1..Len(RecordLog) :
             RecordLog[j] =
                RecordLines(options.channel[((j - 1) \div 12) + 1])[((j - 1) % 12) + 1]
        /\ pc \in {"main_check", "main_loop"} => Len(RecordLog) = 12 * chidx
        /\ Len(RecordLog) >= 12 * (chidx - 1) + 11 =>
             /\ rec.chn = options.channel[chidx]
             /\ rec.xincr = <<OwnXincr(rec.chn)>> /\ rec.xincr[1] # <<>>
             /\ rec.ymult = <<rstrip(OwnYmult(rec.chn))>> /\ rec.ymult[1] # <<>>
             /\ rec.yoff = <<rstrip(OwnYoff(rec.chn))>> /\ rec.yoff[1] # <<>>
             /\ rec.yzero = <<rstrip(OwnYzero(rec.chn))>> /\ rec.yzero[1] # <<>>

\* the step that writes DATA INIT leaves the input buffer empty and the
\* locals of the call without any reply of the preamble
C15_Flush ==
    Count(sent', "DATA INIT") > Count(sent, "DATA INIT") =>
        /\ inbuf' = <<>>
        /\ rec'.xincr = <<>> /\ rec'.ymult = <<>>
        /\ rec'.yoff = <<>> /\ rec'.yzero = <<>>

\* C15: Tds.record flushes the input before it configures the transfer; its
\* commands go out in the order LOCK ALL, DATA INIT, DATA:SOURCE CHn,
\* DATA:ENC ASCII, DATA:WIDTH 1, DATA?, XINCR?, YMULT?, YOFF?, YZERO?,
\* CURVE?, UNLOCK ALL; CURVE? is written only after the four preamble
\* queries of the same channel were answered in the same call.
C15_RecordCommandOrder == []C15_Order /\ [][C15_Flush]_vars

C15_Witness ==
    /\ pc = "main_check"
    /\ chidx = 2
    /\ Len(RecordLog) = 24
    /\ RecordLog[19] = "WFMPRE:CH2:XINCR?"

\* the commands of Tds.hardcopy up to the start of the dump (lines 121-126)
HardcopyLines ==
    <<"LOCK ALL", "HARDCOPY:PORT RS232", "HARDCOPY:FORMAT BMP",
      "HARDCOPY:LAYOUT PORTRAIT", "HARDCOPY START">>

\* Tds.hardcopy is past its first pause
Draining == pc \in {"hc_loop", "hc_body", "hc_unlock"}

\* while the image is being read the five commands of HardcopyLines are
\* the last ones written; once the drain is over and whenever a decision
\* has been made, UNLOCK ALL follows them
C16_Order ==
    /\ (pc = "hc_first" \/ Draining) =>
         /\ Len(Commands) = 10
         /\ SubSeq(Commands, 6, 10) = HardcopyLines
    /\ (pc = "hc_check" \/ hcresult # <<>>) =>
         /\ Len(Commands) >= 11
         /\ SubSeq(Commands, 6, 10) = HardcopyLines
         /\ Commands[11] = "UNLOCK ALL"

\* the image changes only between HARDCOPY START and UNLOCK ALL; UNLOCK ALL
\* of the hardcopy is written only when the loop has been left; the
\* decision is made only after it, whatever the decision is
C16_Steps ==
    /\ image' # image =>
         /\ Len(Commands) = 10
         /\ Commands[10] = "HARDCOPY START"
    /\ (options.hardcopy /\ Len(Commands) = 10 /\ Len(Commands') = 11) =>
         /\ pc = "hc_unlock"
         /\ polls[Len(polls)] = 0
         /\ hcresult' = <<>>
    /\ hcresult' # hcresult =>
         /\ Commands[Len(Commands)] = "UNLOCK ALL"
         /\ Len(Commands) = 11

\* C16: Tds.hardcopy writes LOCK ALL, HARDCOPY:PORT RS232, HARDCOPY:FORMAT
\* BMP, HARDCOPY:LAYOUT PORTRAIT, HARDCOPY START in this order before it
\* reads any byte into the image, and UNLOCK ALL only after the drain has
\* ended and before it accepts or refuses the image.
C16_HardcopyCommandOrder == []C16_Order /\ [][C16_Steps]_vars

C16_Witness ==
    /\ hcresult = <<FALSE>>
    /\ image # <<>>
    /\ Len(Commands) = 11
    /\ Commands[11] = "UNLOCK ALL"

\* the while loop of Tds.hardcopy is left exactly by a poll that finds no
\* byte, however many polls came before, and UNLOCK ALL of the hardcopy is
\* written only after such a poll
C17_NoGuard ==
    /\ (pc = "hc_loop" /\ pc' # "hc_loop") =>
         /\ inWaiting(inbuf) > 0 => pc' = "hc_body"
         /\ inWaiting(inbuf) = 0 => pc' = "hc_unlock"
    /\ (Draining /\ Len(Commands') > Len(Commands)) =>
         /\ polls[Len(polls)] = 0
         /\ Commands'[Len(Commands')] = "UNLOCK ALL"

\* C17: once the dump is started Tds.hardcopy ends, having written UNLOCK
\* ALL and accepted or refused the image, in every run in which the
\* instrument stops sending; the loop has no limit of its own: it goes on
\* after every poll that finds bytes and is left, and UNLOCK ALL written,
\* only after a poll that finds none.
C17_DrainTermination ==
    /\ (pc = "hc_first") ~>
           (hcresult # <<>> /\ Commands[Len(Commands)] = "UNLOCK ALL")
    /\ [][C17_NoGuard]_vars

C17_Witness ==
    /\ hcresult = <<TRUE>>
    /\ polls = <<20000, 15000, 5000, 0>>
    /\ stream = <<>>

\* C18: with an instrument that answers every query, in order, but whose
\* replies may come after the read timeout, every text that Tds.record got from a query and that is not empty is the
\* reply of the instrument to that very query: xincr, ymult, yoff, yzero and
\* the curve are never the late reply to an earlier query.
C18_RepliesPairWithQueries ==
    ~silent =>
    /\ (rec.xincr # <<>> /\ rec.xincr[1] # <<>>) =>
         rec.xincr[1] = OwnXincr(rec.chn)
    /\ (rec.ymult # <<>> /\ rec.ymult[1] # <<>>) =>
         rec.ymult[1] = rstrip(OwnYmult(rec.chn))
    /\ (rec.yoff # <<>> /\ rec.yoff[1] # <<>>) =>
         rec.yoff[1] = rstrip(OwnYoff(rec.chn))
    /\ (rec.yzero # <<>> /\ rec.yzero[1] # <<>>) =>
         rec.yzero[1] = rstrip(OwnYzero(rec.chn))
    /\ (rec.curve # <<>> /\ rec.curve[1] # <<>>) =>
         rec.curve[1] \in DeviceReplies("rec_curve", rec.chn)

\* the bursts of raw bytes among the items of a buffer
IsBytes(item) == item.kind = "bytes"
BytesOf(buf) == SelectSeq(buf, IsBytes)

\* the bursts of b are the output of the instrument from its first byte on,
\* each burst once and in the order sent
InOrder(b) ==
    \A i \in 1..Len(b) : b[i].first = 1 + BufLen(SubSeq(b, 1, i - 1))

\* from the first read on, the image followed by the input buffer holds
\* every byte the instrument has sent since the flush, once and in order;
\* the image returned is such a sequence too
C19_Image ==
    /\ (Draining \/ pc = "hc_check") =>
         /\ InOrder(BytesOf(image \o inbuf))
         /\ BufLen(BytesOf(image \o inbuf)) = produced
    /\ hcresult # <<>> => InOrder(BytesOf(image))

\* the flush leaves nothing of what was waiting; every read takes the whole
\* input buffer, whatever the test of the loop had found, and puts it at
\* the end of the image
C19_Steps ==
    /\ (pc = "hc_trigger" /\ pc' = "hc_first") => inbuf' = <<>>
    /\ (pc = "hc_first" /\ pc' = "hc_loop") =>
         /\ image' = inbuf
         /\ inbuf' = <<>>
    /\ (pc = "hc_body" /\ pc' = "hc_loop") =>
         /\ image' = image \o inbuf
         /\ inbuf' = <<>>
    /\ image' # image => pc \in {"hc_first", "hc_body"}

\* C19: with the instrument sending while the host drains, the image of
\* Tds.hardcopy is the concatenation, in order, of what was taken from the
\* input buffer after the flush: no byte is lost, doubled or out of place,
\* also when bytes arrive between the test of the loop and the read; what
\* was waiting before the flush is not in the image.
C19_ImageIsWhatWasRead == []C19_Image /\ [][C19_Steps]_vars

C19_Witness ==
    /\ pc = "hc_loop"
    /\ polls = <<0, 20000>>
    /\ BufLen(image) = 35000
    /\ produced = 35000

\* C20: when a hardcopy and channels are requested, the hardcopy is made
\* first, down to its UNLOCK ALL and its acceptance, and the channels are
\* recorded afterwards one after the other in the order requested; when the
\* hardcopy is refused main returns 5, no command of an acquisition has been
\* written and no file of measurements exists.
C20_HardcopyThenChannels ==
    (options.hardcopy /\ options.channel # <<>>) =>
        /\ chidx >= 1 =>
             /\ hcresult = <<TRUE>>
             /\ SubSeq(Commands, 6, 11) = HardcopyLines \o <<"UNLOCK ALL">>
             /\ \A j \in 1..11 : Commands[j] \notin
                    {"DATA INIT", "DATA?", "CURVE?", "DATA:ENC ASCII", "DATA:WIDTH 1"}
        /\ \A j \in 12..Len(Commands) :
             /\ chidx >= 1
             /\ Commands[j] \notin
                    {"HARDCOPY:PORT RS232", "HARDCOPY:FORMAT BMP",
                     "HARDCOPY:LAYOUT PORTRAIT", "HARDCOPY START"}
        /\ Len(measurements) <= chidx
        /\ \A k \in 1..Len(measurements) :
             /\ measurements[k].chn = options.channel[k]
             /\ RecordLog[12 * (k - 1) + 3] = "DATA:SOURCE CH" \o options.channel[k]
        /\ chidx >= 1 => rec.chn = options.channel[chidx]
        /\ hcresult = <<FALSE>> =>
             /\ Ended
             /\ result = ReturnInt(5)
             /\ chidx = 0
             /\ measurements = <<>>
             /\ Len(Commands) = 11
             /\ WrittenNames \cap MeasurementFiles = {}

C20_Witness ==
    /\ options.hardcopy
    /\ pc = "exited"
    /\ result = ReturnInt(0)
    /\ Len(measurements) = 2
    /\ measurements[1].chn = "1"
    /\ measurements[2].chn = "2"
    /\ Filename \in WrittenNames

====
